---- MODULE Spec2Model ----
(***************************************************************************)
(* Model of JPIvan/optimisation: the golden-section line search            *)
(* (src/line_search.py, listed in the golden-section notebook) and the     *)
(* least_squares class (src/least_squares.py, listed in the chapter 1      *)
(* notebook).                                                              *)
(*                                                                         *)
(* Numbers.  The search multiplies by 1/phi = (sqrt(5)-1)/2, doubles t and *)
(* halves a sum, so every number it computes from integer inputs lies in   *)
(* the ring Z[1/2][iphi], iphi*iphi = 1 - iphi.  A number is the triple    *)
(* <<a, b, e>> standing for (a + b*iphi) * 2^e, kept in normal form (a and *)
(* b not both even, zero is <<0,0,0>>), so equal numbers are equal         *)
(* triples.  Arithmetic is exact: the rounding of IEEE doubles is not      *)
(* modelled.  None is the empty tuple.                                     *)
(***************************************************************************)
EXTENDS Integers, Sequences, FiniteSets, TLC

VARIABLES
    func, x, dx, precision,     \* arguments of goldensection
    pc,                         \* "bracket", "gs", "done", "failed"
    t, it,                      \* bracketing multiplier and loop index
    nfev,                       \* the nonlocal evaluation counter
    calls,                      \* arguments func was really called with, in order
    gs,                         \* arguments of the current _gs call (None before)
    depth,                      \* number of _gs calls entered
    result, error,              \* returned dict / raised RuntimeError message
    warnings,                   \* floating-point warnings numpy has raised
    klass,                      \* least_squares: the listing the class was loaded from
    A, b,                       \* least_squares: self.A, self.b
    ncalls,                     \* least_squares: method calls made on the instance
    arg,                        \* least_squares: the caller's x object of the last call
    out,                        \* least_squares: outcome of the last call
    stdout,                     \* least_squares: lines printed so far
    runs,                       \* two goldensection calls in progress at once
    evals                       \* the objective's tally of the evaluations each made

lsvars == <<func, x, dx, precision, pc, t, it, nfev, calls, gs, depth,
            result, error, warnings>>
qfvars == <<klass, A, b, ncalls, arg, out, stdout>>
pairvars == <<runs, evals>>
vars == <<func, x, dx, precision, pc, t, it, nfev, calls, gs, depth,
          result, error, warnings, klass, A, b, ncalls, arg, out, stdout,
          runs, evals>>

None == <<>>

----------------------------------------------------------------------------
(* Bounds of the model *)

MaxStart == 1        \* start points are (k, .., k), k in 0..MaxStart
MaxCentre == 2       \* minimiser coordinates of the quadratic objectives
MaxDirExp == 1       \* direction components are 0 or +-2^k, k in 0..MaxDirExp
MaxPrecExp == 1      \* precision is 2^-k, k in 0..MaxPrecExp
MaxRows == 2         \* A and b have 1..MaxRows rows
MaxCols == 2         \* A has 1..MaxCols columns; x has up to MaxCols + 1 elements
MaxShift == 1        \* first node of the generated A and first entry of b, 0..MaxShift
MaxCalls == 2        \* method calls explored on one least_squares instance
MaxOffset == 1       \* points compared with x* lie within MaxOffset steps of it

----------------------------------------------------------------------------
(* Exact arithmetic on <<a, b, e>> = (a + b*iphi) * 2^e *)

RECURSIVE Pow2(_)
Pow2(n) == IF n = 0 THEN 1 ELSE 2 * Pow2(n - 1)

RECURSIVE Norm(_, _, _)
Norm(a, c, e) ==
    IF a = 0 /\ c = 0 THEN <<0, 0, 0>>
    ELSE IF a % 2 = 0 /\ c % 2 = 0 THEN Norm(a \div 2, c \div 2, e + 1)
    ELSE <<a, c, e>>

Zero == <<0, 0, 0>>
Num(n) == Norm(n, 0, 0)
IsNum(u) == Len(u) = 3

Neg(u) == <<-u[1], -u[2], u[3]>>

Add(u, v) ==
    IF u = Zero THEN v
    ELSE IF v = Zero THEN u
    ELSE LET e0 == IF u[3] < v[3] THEN u[3] ELSE v[3]
             pu == Pow2(u[3] - e0)
             pv == Pow2(v[3] - e0)
         IN  Norm(u[1] * pu + v[1] * pv, u[2] * pu + v[2] * pv, e0)

Sub(u, v) == Add(u, Neg(v))

\* (a + b i)(c + d i) = ac + bd + (ad + bc - bd) i, since i*i = 1 - i
Mul(u, v) ==
    Norm(u[1] * v[1] + u[2] * v[2],
         u[1] * v[2] + u[2] * v[1] - u[2] * v[2],
         u[3] + v[3])

\* sign of a + b*iphi: multiplying by phi = 1 + iphi > 0 gives (a+b) + a*iphi
RECURSIVE SignAB(_, _)
SignAB(a, c) ==
    IF a >= 0 /\ c >= 0 THEN (IF a = 0 /\ c = 0 THEN 0 ELSE 1)
    ELSE IF a <= 0 /\ c <= 0 THEN -1
    ELSE SignAB(a + c, a)

Sign(u) == SignAB(u[1], u[2])
Less(u, v) == Sign(Sub(u, v)) < 0
Leq(u, v) == Sign(Sub(u, v)) <= 0
Greater(u, v) == Sign(Sub(u, v)) > 0

\* IEEE special values of a division by zero
PosInf == <<0, 0, 0, 1>>
NegInf == <<0, 0, 0, 2>>
NaN == <<0, 0, 0, 3>>

\* u / v for the divisors the model meets: zero, and the units of the ring
\* (norm a*a - a*b - b*b = +-1), whose inverse is (a - b - b*iphi) / norm
Div(u, v) ==
    IF v = Zero
    THEN (IF u = Zero THEN NaN ELSE IF Sign(u) > 0 THEN PosInf ELSE NegInf)
    ELSE LET n == v[1] * v[1] - v[1] * v[2] - v[2] * v[2]
         IN  CASE n = 1 -> Mul(u, <<v[1] - v[2], -v[2], -v[3]>>)
               [] n = -1 -> Mul(u, <<v[2] - v[1], v[2], -v[3]>>)

\* sums and quotients that may carry inf / nan
ExtAdd(u, v) ==
    IF IsNum(u) /\ IsNum(v) THEN Add(u, v)
    ELSE IF u = NaN \/ v = NaN THEN NaN
    ELSE IF IsNum(u) THEN v
    ELSE IF IsNum(v) THEN u
    ELSE IF u = v THEN u ELSE NaN

ExtDiv(u, v) == IF IsNum(u) THEN Div(u, v) ELSE u

----------------------------------------------------------------------------
(* Points: sequences of numbers (numpy arrays / Python scalars) *)

VAdd(p, q) == [i \in 1..Len(p) |-> Add(p[i], q[i])]
VSub(p, q) == [i \in 1..Len(p) |-> Sub(p[i], q[i])]
VScale(s, p) == [i \in 1..Len(p) |-> Mul(s, p[i])]
VDiv(p, q) == [i \in 1..Len(p) |-> Div(p[i], q[i])]

RECURSIVE SumSeq(_)
SumSeq(s) == IF s = <<>> THEN Zero ELSE ExtAdd(s[1], SumSeq(Tail(s)))

\* np.linalg.norm(h) <= p, decided on the squares (the root is monotone)
NormSq(h) == SumSeq([i \in 1..Len(h) |-> Mul(h[i], h[i])])
NormLeq(h, p) == Sign(p) >= 0 /\ Leq(NormSq(h), Mul(p, p))

\* np.average(v)
Average(v) == ExtDiv(SumSeq(v), Num(Len(v)))

----------------------------------------------------------------------------
(* goldensection(func, x, dx, precision) *)

BracketCap == 64     \* for _ in range(64)

BracketingFailed ==
    "Bracketing minimum failed. Check if func is convex, start point, and search direction."

\* 5**0.5, with (1 + 2*iphi)^2 = 5
SQRT5 == <<1, 2, 0>>
iphi_half == Div(Num(2), Num(4))             \* 0.5 in place of 1/phi
iphi == Div(Sub(SQRT5, Num(1)), Num(2))      \* 1/phi
iphi2_half == Div(Num(1), Num(2))            \* 1/2 in place of 1/phi^2
iphi2 == Div(Sub(Num(3), SQRT5), Num(2))     \* 1/phi^2

\* The objectives handed in as func:
\*   quad:  sum (p[i] - c[i])^2     (strictly convex, minimiser c)
\*   lin:   - sum p[i]              (linear)
\*   const: 0
\*   well:  sum p[i]^2 (p[i] - 2)^2 (two minima, 0 and 2, either side of 1)
Well(u) == Mul(Mul(u, u), Mul(Sub(u, Num(2)), Sub(u, Num(2))))
\*   flat:  max(0, sum p[i] - 3)    (level up to the plane sum = 3, then rising)
Flat(u) ==
    IF Sign(u) <= 0 THEN Zero
    ELSE IF Sign(Sub(u, Num(3))) > 0 THEN Sub(u, Num(3)) ELSE Zero
F(fn, p) ==
    CASE fn.kind = "quad" -> NormSq(VSub(p, fn.c))
      [] fn.kind = "lin" -> Neg(SumSeq(p))
      [] fn.kind = "const" -> Zero
      [] fn.kind = "well" -> SumSeq([i \in 1..Len(p) |-> Well(p[i])])
      [] fn.kind = "flat" -> Flat(SumSeq(p))

\* _f with nfev += 2
_f_twice(fn, n, cs, p) == [val |-> F(fn, p), nfev |-> n + 2, calls |-> Append(cs, p)]

\* _f without the increment of nfev
_f_uncounted(fn, n, cs, p) == [val |-> F(fn, p), nfev |-> n, calls |-> Append(cs, p)]

\* _f: count the evaluation, then call func.  n and cs are nfev and the
\* log of the calls func has received.
_f(fn, n, cs, p) == [val |-> F(fn, p), nfev |-> n + 1, calls |-> Append(cs, p)]

\* the tests with the comparison slackened or turned round
BracketFound_nonstrict(f1, f0) == ~Less(f1, f0)
GsLeft_flipped(fx2, fx3) == Less(fx3, fx2)

\* the tests the search branches on
\* the test of the loop with < in place of >
BracketFound_less(f1, f0) == Less(f1, f0)
BracketFound(f1, f0) == Greater(f1, f0)      \* _f(x + t*dx) > _f(x)
\* the stop test with < in place of <=
GsStop_strict(h, prec) == Sign(prec) >= 0 /\ Less(NormSq(h), Mul(prec, prec))
GsStop(h, prec) == NormLeq(h, prec)          \* np.linalg.norm(h) <= precision
GsLeft_ties(fx2, fx3) == Leq(fx2, fx3)       \* fx2 <= fx3
GsLeft(fx2, fx3) == Less(fx2, fx3)           \* fx2 < fx3

Midpoint_left(x1, x4) == x1                  \* the near end in place of the midpoint
Midpoint(x1, x4) == [i \in 1..Len(x1) |-> Div(Add(x1[i], x4[i]), Num(2))]
ShrinkH_iphi2(h) == VScale(iphi2, h)         \* h*iphi2
ShrinkH(h) == VScale(iphi, h)                \* h*iphi

NoFrame == [entered |-> FALSE]
NoResult == [returned |-> FALSE]

\* a call that is handed the interior point but not its value
Frame_forgetful(x1, x4, h, x2, x3, fx2, fx3) ==
    [entered |-> TRUE, x1 |-> x1, x4 |-> x4, h |-> h,
     x2 |-> x2, x3 |-> x3, fx2 |-> None, fx3 |-> None]

\* the arguments of a call of _gs
Frame(x1, x4, h, x2, x3, fx2, fx3) ==
    [entered |-> TRUE, x1 |-> x1, x4 |-> x4, h |-> h,
     x2 |-> x2, x3 |-> x3, fx2 |-> fx2, fx3 |-> fx3]

\* One call of _gs with arguments g: either it returns the midpoint, or it
\* evaluates what is missing and makes the recursive call `next`.
_gs(g, fn, prec, n, cs) ==
    LET h == IF g.h = None THEN VSub(g.x4, g.x1) ELSE g.h
    IN  IF GsStop(h, prec)
        THEN [returns |-> TRUE, value |-> Midpoint(g.x1, g.x4), next |-> NoFrame,
              nfev |-> n, calls |-> cs]
        ELSE LET x2 == IF g.x2 = None THEN VAdd(g.x1, VScale(iphi2, h)) ELSE g.x2
                 x3 == IF g.x3 = None THEN VAdd(g.x1, VScale(iphi, h)) ELSE g.x3
                 e2 == IF g.fx2 = None THEN _f(fn, n, cs, x2)
                       ELSE [val |-> g.fx2, nfev |-> n, calls |-> cs]
                 e3 == IF g.fx3 = None THEN _f(fn, e2.nfev, e2.calls, x3)
                       ELSE [val |-> g.fx3, nfev |-> e2.nfev, calls |-> e2.calls]
             IN  [returns |-> FALSE, value |-> None,
                  next |-> IF GsLeft(e2.val, e3.val)
                           THEN Frame(g.x1, x3, ShrinkH(h), None, x2, None, e2.val)
                           ELSE Frame(x2, g.x4, ShrinkH(h), x3, None, e3.val, None),
                  nfev |-> e3.nfev, calls |-> e3.calls]

\* np.sum in place of np.average
StepOf_sum(xopt, x0, d) == SumSeq(VDiv(VSub(xopt, x0), d))

\* 't': np.average((xopt - x) / dx)
StepOf(xopt, x0, d) == Average(VDiv(VSub(xopt, x0), d))

\* numpy's RuntimeWarnings of the element-wise division p / q
DivWarnings(p, q) ==
    {w \in {"divide by zero", "invalid value"} :
        \E i \in 1..Len(q) :
            /\ q[i] = Zero
            /\ (w = "invalid value") = (p[i] = Zero)}

\* the iteration with the value at x kept from the first iteration on
BracketEvals_cached ==
    LET e1 == _f(func, nfev, calls, VAdd(x, VScale(t, dx)))
        e0 == IF it = 0 THEN _f(func, e1.nfev, e1.calls, x)
              ELSE [val |-> F(func, x), nfev |-> e1.nfev, calls |-> e1.calls]
    IN  [f1 |-> e1.val, f0 |-> e0.val, nfev |-> e0.nfev, calls |-> e0.calls]

\* the two evaluations of one bracketing iteration, left operand first
BracketEvals ==
    LET e1 == _f(func, nfev, calls, VAdd(x, VScale(t, dx)))
        e0 == _f(func, e1.nfev, e1.calls, x)
    IN  [f1 |-> e1.val, f0 |-> e0.val, nfev |-> e0.nfev, calls |-> e0.calls]

\* an iteration that finds the bracket: break, then xopt = _gs(x, x + t*dx)
BracketBreak ==
    /\ pc = "bracket"
    /\ it < BracketCap
    /\ LET e == BracketEvals
       IN  /\ BracketFound(e.f1, e.f0)
           /\ nfev' = e.nfev
           /\ calls' = e.calls
    /\ pc' = "gs"
    /\ gs' = Frame(x, VAdd(x, VScale(t, dx)), None, None, None, None, None)
    /\ depth' = 1
    /\ UNCHANGED <<func, x, dx, precision, t, it, result, error, warnings>>
    /\ UNCHANGED <<qfvars, pairvars>>

\* an iteration that does not, with t += 1 in place of t *= 2
BracketDouble_incrementing ==
    /\ pc = "bracket"
    /\ it < BracketCap
    /\ LET e == BracketEvals
       IN  /\ ~BracketFound(e.f1, e.f0)
           /\ nfev' = e.nfev
           /\ calls' = e.calls
    /\ t' = Add(t, Num(1))
    /\ it' = it + 1
    /\ UNCHANGED <<func, x, dx, precision, pc, gs, depth, result, error, warnings>>
    /\ UNCHANGED <<qfvars, pairvars>>

\* an iteration that does not: t *= 2
BracketDouble ==
    /\ pc = "bracket"
    /\ it < BracketCap
    /\ LET e == BracketEvals
       IN  /\ ~BracketFound(e.f1, e.f0)
           /\ nfev' = e.nfev
           /\ calls' = e.calls
    /\ t' = Mul(t, Num(2))
    /\ it' = it + 1
    /\ UNCHANGED <<func, x, dx, precision, pc, gs, depth, result, error, warnings>>
    /\ UNCHANGED <<qfvars, pairvars>>

\* the else branch of the for loop
BracketExhausted ==
    /\ pc = "bracket"
    /\ it = BracketCap
    /\ pc' = "failed"
    /\ error' = BracketingFailed
    /\ UNCHANGED <<func, x, dx, precision, t, it, nfev, calls, gs, depth,
                   result, warnings>>
    /\ UNCHANGED <<qfvars, pairvars>>

\* a call of _gs that recurses
GsRecurse ==
    /\ pc = "gs"
    /\ LET r == _gs(gs, func, precision, nfev, calls)
       IN  /\ ~r.returns
           /\ gs' = r.next
           /\ nfev' = r.nfev
           /\ calls' = r.calls
    /\ depth' = depth + 1
    /\ UNCHANGED <<func, x, dx, precision, pc, t, it, result, error, warnings>>
    /\ UNCHANGED <<qfvars, pairvars>>

\* the call of _gs that returns, and the return of goldensection
GsReturn ==
    /\ pc = "gs"
    /\ LET r == _gs(gs, func, precision, nfev, calls)
       IN  /\ r.returns
           /\ result' = [returned |-> TRUE, x |-> r.value,
                         t |-> StepOf(r.value, x, dx), nfev |-> nfev]
           /\ warnings' = warnings \cup DivWarnings(VSub(r.value, x), dx)
    /\ pc' = "done"
    /\ UNCHANGED <<func, x, dx, precision, t, it, nfev, calls, gs, depth, error>>
    /\ UNCHANGED <<qfvars, pairvars>>

\* The calls explored
Origin(n) == [i \in 1..n |-> Zero]
Dims == {1, 2}       \* scalars and points of the plane
Starts(n) == {[i \in 1..n |-> Num(k)] : k \in 0..MaxStart}
Centres(n) == [1..n -> {Num(k) : k \in 0..MaxCentre}]
DirVals == {Zero} \cup {<<s, 0, k>> : s \in {1, -1}, k \in 0..MaxDirExp}
Dirs(n) == [1..n -> DirVals]
Precs == {<<1, 0, -k>> : k \in 0..MaxPrecExp}

\* A run that never brackets reaches t = 2^63: it is explored from the
\* origin, where x + t*dx stays a single term.
LsInputs ==
    UNION {
        {[func |-> [kind |-> "quad", c |-> c], x |-> s, dx |-> d, precision |-> p] :
            c \in Centres(n), s \in Starts(n), d \in Dirs(n), p \in Precs}
        \cup
        {[func |-> [kind |-> k], x |-> Origin(n), dx |-> d, precision |-> p] :
            k \in {"lin", "const", "flat"}, d \in Dirs(n), p \in Precs}
        : n \in Dims}

\* no pair of concurrent calls in progress
PairIdle ==
    /\ runs = <<>>
    /\ evals = <<>>

QfIdle ==
    /\ klass = "none"
    /\ ncalls = 0
    /\ A = <<>>
    /\ b = <<>>
    /\ arg = [isarray |-> FALSE, shape |-> <<0>>, data |-> <<>>]
    /\ out = [kind |-> "none"]
    /\ stdout = <<>>

Init ==
    /\ \E in \in LsInputs :
        /\ func = in.func
        /\ x = in.x
        /\ dx = in.dx
        /\ precision = in.precision
    /\ pc = "bracket"
    /\ t = Num(1)
    /\ it = 0
    /\ nfev = 0
    /\ calls = <<>>
    /\ gs = NoFrame
    /\ depth = 0
    /\ result = NoResult
    /\ error = ""
    /\ warnings = {}
    /\ QfIdle
    /\ PairIdle

Next ==
    \/ BracketBreak
    \/ BracketDouble
    \/ BracketExhausted
    \/ GsRecurse
    \/ GsReturn

Spec == Init /\ [][Next]_vars

----------------------------------------------------------------------------
(* class least_squares *)

\* A and b are 2-d arrays, kept as sequences of rows.  An argument x is
\* [isarray, shape, data]: a numpy array, or a (nested) list of that
\* nesting, with its elements in row-major order.
Shape2(M) == <<Len(M), Len(M[1])>>

\* np.array(v): the array of a list, or the array itself
NpArray(v) == [isarray |-> TRUE, shape |-> v.shape, data |-> v.data]

\* v.reshape(1, -1): a row in place of the column
ReshapeColumn_row(v) ==
    [isarray |-> TRUE, shape |-> <<1, Len(v.data)>>, data |-> v.data]

\* v.reshape(-1, 1)
ReshapeColumn(v) ==
    [isarray |-> TRUE, shape |-> <<Len(v.data), 1>>, data |-> v.data]

\* the coercion without the test of the second axis
Coerce_ndim(xv) ==
    IF ~xv.isarray THEN ReshapeColumn(NpArray(xv))
    ELSE IF Len(xv.shape) # 2 THEN ReshapeColumn(xv)
    ELSE xv
\* lines 510-514: _x
Coerce(xv) ==
    IF ~xv.isarray THEN ReshapeColumn(NpArray(xv))
    ELSE IF Len(xv.shape) # 2 \/ xv.shape[2] # 1 THEN ReshapeColumn(xv)
    ELSE xv

RECURSIVE SumInts(_)
SumInts(s) == IF s = <<>> THEN 0 ELSE s[1] + SumInts(Tail(s))

\* self.A @ _x, for a column _x with as many rows as A has columns
MatMul(M, col) ==
    [i \in 1..Len(M) |-> <<SumInts([j \in 1..Len(M[i]) |-> M[i][j] * col.data[j]])>>]

\* P - Q for columns, under numpy's broadcasting of the row axis
Broadcastable(P, Q) == Len(P) = Len(Q) \/ Len(P) = 1 \/ Len(Q) = 1
\* P + Q in place of P - Q
BroadcastSub_add(P, Q) ==
    LET rows == IF Len(P) >= Len(Q) THEN Len(P) ELSE Len(Q)
        at(M, i) == IF Len(M) = 1 THEN M[1][1] ELSE M[i][1]
    IN  [i \in 1..rows |-> <<at(P, i) + at(Q, i)>>]
BroadcastSub(P, Q) ==
    LET rows == IF Len(P) >= Len(Q) THEN Len(P) ELSE Len(Q)
        at(M, i) == IF Len(M) = 1 THEN M[1][1] ELSE M[i][1]
    IN  [i \in 1..rows |-> <<at(P, i) - at(Q, i)>>]

\* np.linalg.norm(R)**2
NormSquared(R) == SumInts([i \in 1..Len(R) |-> R[i][1] * R[i][1]])

ShapeMismatch(sa, sx) == [text |-> "Shape mismatch", A |-> sa, x |-> sx]

\* the check of line 516 compared with the rows of A
WrongSize_rows(cx, M) == cx.shape[1] # Shape2(M)[1]

\* line 516: column vector of wrong size
WrongSize(cx, M) == cx.shape[1] # Shape2(M)[2]

\* least_squares.__call__(self, x).  Returns the outcome, the numpy
\* operations performed on A, _x, b (ops), the lines printed, and the
\* caller's object x as the call leaves it.  The second listing prints
\* before the check.
__call__(k, M, v, xv) ==
    LET cx == Coerce(xv)
        printed == IF k = "In[10]" THEN <<<<cx.shape[1], Shape2(M)[2]>>>> ELSE <<>>
    IN  IF WrongSize(cx, M)
        THEN [kind |-> "ValueError", msg |-> ShapeMismatch(Shape2(M), cx.shape),
              ops |-> <<>>, printed |-> printed, x |-> xv]
        ELSE LET Ax == MatMul(M, cx)
             IN  IF ~Broadcastable(Ax, v)
                 THEN [kind |-> "ValueError", msg |-> [text |-> "operands could not be broadcast together"],
                       ops |-> <<"matmul", "subtract">>, printed |-> printed, x |-> xv]
                 ELSE [kind |-> "value", value |-> NormSquared(BroadcastSub(Ax, v)),
                       ops |-> <<"matmul", "subtract", "norm", "power">>,
                       printed |-> printed, x |-> xv]

\* Integer linear algebra for np.linalg.lstsq
Transpose(M) == [j \in 1..Len(M[1]) |-> [i \in 1..Len(M) |-> M[i][j]]]
MatProd(P, Q) ==
    [i \in 1..Len(P) |-> [j \in 1..Len(Q[1]) |->
        SumInts([k \in 1..Len(Q) |-> P[i][k] * Q[k][j]])]]
Minor(M, r, c) ==
    [i \in 1..(Len(M) - 1) |-> [j \in 1..(Len(M) - 1) |->
        M[IF i < r THEN i ELSE i + 1][IF j < c THEN j ELSE j + 1]]]
RECURSIVE Det(_)
Det(M) ==
    IF Len(M) = 1 THEN M[1][1]
    ELSE SumInts([j \in 1..Len(M) |->
             (IF j % 2 = 1 THEN 1 ELSE -1) * M[1][j] * Det(Minor(M, 1, j))])
ReplaceCol(G, k, c) ==
    [i \in 1..Len(G) |-> [j \in 1..Len(G) |-> IF j = k THEN c[i][1] ELSE G[i][j]]]
Abs(k) == IF k < 0 THEN -k ELSE k
RECURSIVE Gcd(_, _)
Gcd(u, v) == IF v = 0 THEN Abs(u) ELSE Gcd(v, u % Abs(v))
RECURSIVE GcdAll(_)
GcdAll(q) == IF q = <<>> THEN 0 ELSE Gcd(q[1], GcdAll(Tail(q)))
\* y with G y = c by Cramer's rule: the numerators, over the denominator Det(G)
Cramer(G, c) == [k \in 1..Len(G) |-> <<Det(ReplaceCol(G, k, c))>>]
\* the n-by-1 array of the entries nums[i] / den, in lowest terms
Fractions(nums, den) ==
    LET g == Gcd(den, GcdAll(nums))
    IN  [isarray |-> TRUE, shape |-> <<Len(nums), 1>>,
         data |-> [i \in 1..Len(nums) |-> nums[i] \div g], den |-> den \div g]

\* np.linalg.lstsq(A, b, rcond=None) for a full-rank A and a one-column b:
\* it raises LinAlgError when the row counts differ and otherwise returns
\*   x          the least-squares solution of least norm, which solves
\*              (A^T A) x = A^T b when A has at least as many rows as
\*              columns and is A^T y with (A A^T) y = b when it has fewer;
\*   residuals  the one-element array of || A x - b ||^2 when A has more
\*              rows than columns, else an empty array;
\*   rank       the rank of A;
\*   s          the singular values of A, left uninterpreted.
Lstsq(M, v) ==
    IF Len(M) # Len(v) THEN <<>>
    ELSE LET tall == Len(M) >= Len(M[1])
             G == IF tall THEN MatProd(Transpose(M), M) ELSE MatProd(M, Transpose(M))
             y == Cramer(G, IF tall THEN MatProd(Transpose(M), v) ELSE v)
             nums == IF tall THEN y ELSE MatProd(Transpose(M), y)
             xs == Fractions([i \in 1..Len(nums) |-> nums[i][1]], Det(G))
             res == [i \in 1..Len(M) |->
                        SumInts([j \in 1..Len(M[i]) |-> M[i][j] * xs.data[j]])
                        - xs.den * v[i][1]]
         IN  <<xs,
               IF Len(M) > Len(M[1])
               THEN [Fractions(<<NormSquared([i \in 1..Len(res) |-> <<res[i]>>])>>,
                               xs.den * xs.den) EXCEPT !.shape = <<1>>]
               ELSE [isarray |-> TRUE, shape |-> <<0>>, data |-> <<>>, den |-> 1],
               IF tall THEN Len(M[1]) ELSE Len(M),
               [lstsq |-> "s", A |-> M]>>

\* solve_minimum with the solution and the residuals under each other's key
solve_minimum_swapped(M, v) ==
    LET _soln == Lstsq(M, v)
    IN  IF _soln = <<>>
        THEN [kind |-> "LinAlgError", ops |-> <<"lstsq">>]
        ELSE [kind |-> "report", ops |-> <<"lstsq">>,
              report |-> ("x*" :> _soln[2] @@ "r" :> _soln[1] @@
                          "rk" :> _soln[3] @@ "s" :> _soln[4])]

\* least_squares.solve_minimum(self): the dict under its keys
solve_minimum(M, v) ==
    LET _soln == Lstsq(M, v)
    IN  IF _soln = <<>>
        THEN [kind |-> "LinAlgError", ops |-> <<"lstsq">>]
        ELSE [kind |-> "report", ops |-> <<"lstsq">>,
              report |-> ("x*" :> _soln[1] @@ "r" :> _soln[2] @@
                          "rk" :> _soln[3] @@ "s" :> _soln[4])]

\* a call that keeps the difference it computed in self.b
Call_storing(xv) ==
    /\ pc = "idle"
    /\ ncalls < MaxCalls
    /\ LET r == __call__(klass, A, b, xv)
       IN  /\ out' = r
           /\ arg' = r.x
           /\ stdout' = stdout \o r.printed
           /\ b' = IF r.kind = "value" THEN BroadcastSub(MatMul(A, Coerce(xv)), b) ELSE b
    /\ ncalls' = ncalls + 1
    /\ UNCHANGED <<klass, A>>
    /\ UNCHANGED <<lsvars, pairvars>>

\* f0(x)
Call(xv) ==
    /\ pc = "idle"
    /\ ncalls < MaxCalls
    /\ LET r == __call__(klass, A, b, xv)
       IN  /\ out' = r
           /\ arg' = r.x
           /\ stdout' = stdout \o r.printed
    /\ ncalls' = ncalls + 1
    /\ UNCHANGED <<klass, A, b>>
    /\ UNCHANGED <<lsvars, pairvars>>

\* f0.solve_minimum()
SolveMinimum ==
    /\ pc = "idle"
    /\ ncalls < MaxCalls
    /\ out' = solve_minimum(A, b)
    /\ ncalls' = ncalls + 1
    /\ UNCHANGED <<klass, A, b, arg, stdout>>
    /\ UNCHANGED <<lsvars, pairvars>>

\* The instances and arguments explored
RECURSIVE Pow(_, _)
Pow(n, e) == IF e = 0 THEN 1 ELSE n * Pow(n, e - 1)
\* the design matrix of a polynomial fit at the nodes s, s+1, ..
DesignMatrix(m, n, s) == [i \in 1..m |-> [j \in 1..n |-> Pow(s + i - 1, j - 1)]]
Column(k, s) == [i \in 1..k |-> <<s + i - 1>>]
Ramp(len) == [i \in 1..len |-> 1 + i]
\* the least element count of a 2-d array with no axis of length 1
SquareCols == 2 * 2
\* the shapes of len elements: flat, or 2-d p-by-q
Shapes(len) == {<<len>>} \cup {<<p, q>> : p \in 1..len, q \in 1..len}
XForms(d) ==
    {[isarray |-> a, shape |-> sh, data |-> d] :
        a \in BOOLEAN,
        sh \in {sh \in Shapes(Len(d)) : Len(sh) = 1 \/ sh[1] * sh[2] = Len(d)}}
XArgs == UNION {XForms(Ramp(len)) : len \in (1..(MaxCols + 1)) \cup {SquareCols}}
NoArg == [isarray |-> FALSE, shape |-> <<0>>, data |-> <<>>]
NoOut == [kind |-> "none"]

LsIdle ==
    /\ func = [kind |-> "none"]
    /\ x = <<>>
    /\ dx = <<>>
    /\ precision = Zero
    /\ pc = "idle"
    /\ t = Zero
    /\ it = 0
    /\ nfev = 0
    /\ calls = <<>>
    /\ gs = NoFrame
    /\ depth = 0
    /\ result = NoResult
    /\ error = ""
    /\ warnings = {}

\* least_squares(A, b): __init__ stores both, unchecked
InitLsq ==
    /\ klass \in {"In[2]", "In[10]"}
    /\ \/ \E m \in 1..MaxRows, n \in 1..MaxCols, s \in 0..MaxShift :
             A = DesignMatrix(m, n, s)
       \/ \E s \in 0..MaxShift : A = DesignMatrix(1, SquareCols, s)
    /\ \E k \in 1..MaxRows, s \in 0..MaxShift : b = Column(k, s)
    /\ ncalls = 0
    /\ arg = NoArg
    /\ out = NoOut
    /\ stdout = <<>>
    /\ LsIdle
    /\ PairIdle

NextLsq ==
    \/ \E xv \in XArgs : Call(xv)
    \/ SolveMinimum

SpecLsq == InitLsq /\ [][NextLsq]_vars

----------------------------------------------------------------------------
(* Two goldensection calls in progress at once *)

\* The frame of one goldensection call: its arguments and its locals
\* (nfev is a local of the call, reached by _f through `nonlocal`), held
\* between two objective evaluations.  f1 is the left operand of the
\* bracketing test while the right one is being evaluated.
Started(in) ==
    [func |-> in.func, x |-> in.x, dx |-> in.dx, precision |-> in.precision,
     pc |-> "bracket", t |-> Num(1), it |-> 0, nfev |-> 0, calls |-> <<>>,
     f1 |-> None, gs |-> NoFrame, depth |-> 0, result |-> NoResult, error |-> ""]

Finished(c) == c.pc \in {"done", "failed"}

\* The call c run up to its next suspension: at most one evaluation of the
\* objective, and the statements around it.
Advance(c) ==
    IF c.pc = "bracket"
    THEN IF c.it = BracketCap
         THEN [c EXCEPT !.pc = "failed", !.error = BracketingFailed]
         ELSE LET e1 == _f(c.func, c.nfev, c.calls, VAdd(c.x, VScale(c.t, c.dx)))
              IN  [c EXCEPT !.pc = "bracket0", !.f1 = e1.val,
                            !.nfev = e1.nfev, !.calls = e1.calls]
    ELSE IF c.pc = "bracket0"
    THEN LET e0 == _f(c.func, c.nfev, c.calls, c.x)
         IN  IF BracketFound(c.f1, e0.val)
             THEN [c EXCEPT !.pc = "gs", !.f1 = None,
                            !.nfev = e0.nfev, !.calls = e0.calls,
                            !.gs = Frame(c.x, VAdd(c.x, VScale(c.t, c.dx)),
                                         None, None, None, None, None),
                            !.depth = 1]
             ELSE [c EXCEPT !.pc = "bracket", !.f1 = None,
                            !.nfev = e0.nfev, !.calls = e0.calls,
                            !.t = Mul(c.t, Num(2)), !.it = c.it + 1]
    ELSE IF c.pc = "gs"
    THEN LET g == c.gs
             h == IF g.h = None THEN VSub(g.x4, g.x1) ELSE g.h
             r == _gs(g, c.func, c.precision, c.nfev, c.calls)
         IN  IF r.returns
             THEN [c EXCEPT !.pc = "done",
                            !.result = [returned |-> TRUE, x |-> r.value,
                                        t |-> StepOf(r.value, c.x, c.dx),
                                        nfev |-> c.nfev]]
             ELSE IF g.fx2 = None /\ g.fx3 = None
             THEN \* both interior values missing: fx2 = _f(x2), and the
                  \* call is held before fx3 = _f(x3)
                  LET x2 == VAdd(g.x1, VScale(iphi2, h))
                      e2 == _f(c.func, c.nfev, c.calls, x2)
                  IN  [c EXCEPT !.gs = Frame(g.x1, g.x4, h, x2, None, e2.val, None),
                                !.nfev = e2.nfev, !.calls = e2.calls]
             ELSE [c EXCEPT !.gs = r.next, !.depth = c.depth + 1,
                            !.nfev = r.nfev, !.calls = r.calls]
    ELSE c

\* the tally after a step of call i: the objective counts the points it
\* was handed by each call
Tally(i, old, new) ==
    [evals EXCEPT ![i] = @ + (Len(new.calls) - Len(old.calls))]

\* a step of call i with nfev a module-level counter, common to the calls
Resume_global(i) ==
    /\ pc = "idle"
    /\ runs # <<>>
    /\ ~Finished(runs[i])
    /\ LET new == Advance(runs[i])
       IN  /\ runs' = [j \in DOMAIN runs |->
                          IF j = i THEN new ELSE [runs[j] EXCEPT !.nfev = new.nfev]]
           /\ evals' = Tally(i, runs[i], new)
    /\ UNCHANGED <<lsvars, qfvars>>

\* call i is scheduled and runs to its next suspension
Resume(i) ==
    /\ pc = "idle"
    /\ runs # <<>>
    /\ ~Finished(runs[i])
    /\ LET new == Advance(runs[i])
       IN  /\ runs' = [runs EXCEPT ![i] = new]
           /\ evals' = Tally(i, runs[i], new)
    /\ UNCHANGED <<lsvars, qfvars>>

\* The pairs explored: a one-dimensional search beside a two-dimensional
\* one or a search that never brackets
PairFirst ==
    {in \in LsInputs :
        /\ in.func.kind = "quad"
        /\ in.x = Origin(1)
        /\ in.dx \in {<<Num(1)>>, <<Num(-1)>>}}
PairSecond ==
    {[func |-> [kind |-> "quad", c |-> <<Num(1), Num(2)>>], x |-> Origin(2),
      dx |-> <<Num(1), Num(2)>>, precision |-> p] : p \in Precs}
    \cup {[func |-> [kind |-> "const"], x |-> Origin(1), dx |-> <<Zero>>,
           precision |-> Num(1)]}

InitPair ==
    /\ \E in1 \in PairFirst, in2 \in PairSecond :
          runs = <<Started(in1), Started(in2)>>
    /\ evals = <<0, 0>>
    /\ LsIdle
    /\ QfIdle

NextPair == \E i \in 1..2 : Resume(i)

SpecPair == InitPair /\ [][NextPair]_vars

----------------------------------------------------------------------------
(* A goldensection call made a second time *)

\* the same call made again after the first has ended, its counter going
\* on from where the first call left it
CallAgain_continuing ==
    /\ pc = "idle"
    /\ Len(runs) = 1
    /\ Finished(runs[1])
    /\ runs' = Append(runs, [Started(runs[1]) EXCEPT !.nfev = runs[1].nfev])
    /\ evals' = Append(evals, 0)
    /\ UNCHANGED <<lsvars, qfvars>>

\* goldensection(func, x, dx, precision) called again with the arguments
\* of the call that has ended
CallAgain ==
    /\ pc = "idle"
    /\ Len(runs) = 1
    /\ Finished(runs[1])
    /\ runs' = Append(runs, Started(runs[1]))
    /\ evals' = Append(evals, 0)
    /\ UNCHANGED <<lsvars, qfvars>>

\* The calls repeated: convex objectives, the two-minima objective from
\* starts on and off its hump, and a search that never brackets
TwiceInputs ==
    {in \in LsInputs : Len(in.x) = 1 /\ in.dx # <<Zero>> /\ in.func.kind = "quad"}
    \cup UNION {
             {[func |-> [kind |-> "well"], x |-> s, dx |-> d, precision |-> p] :
                 s \in Starts(n), d \in Dirs(n) \ {Origin(n)}, p \in Precs}
             : n \in Dims}
    \cup {[func |-> [kind |-> "const"], x |-> Origin(1), dx |-> <<Num(1)>>,
           precision |-> Num(1)]}

InitTwice ==
    /\ \E in \in TwiceInputs : runs = <<Started(in)>>
    /\ evals = <<0>>
    /\ LsIdle
    /\ QfIdle

NextTwice ==
    \/ \E i \in DOMAIN runs : Resume(i)
    \/ CallAgain

SpecTwice == InitTwice /\ [][NextTwice]_vars

----------------------------------------------------------------------------
(* Properties of goldensection *)

\* The minimiser of the objective on the ray x + s*dx, s >= 0, is
\* x + (P/Q)*dx with Q = dx.dx and, for the quadratic, P = dx.(c - x) when
\* that is positive; otherwise, and for the linear objective increasing
\* along the ray, it is x itself.
RayQ == SumSeq([i \in 1..Len(dx) |-> Mul(dx[i], dx[i])])
RayP ==
    IF func.kind = "quad"
    THEN SumSeq([i \in 1..Len(dx) |-> Mul(dx[i], Sub(func.c[i], x[i]))])
    ELSE Zero
StrictlyUnimodalOnRay ==
    \/ func.kind = "quad" /\ RayQ # Zero
    \/ func.kind = "lin" /\ Sign(SumSeq(dx)) < 0
\* || p - x* || <= r, cleared of the division by Q
WithinOfMinimiser(p, r) ==
    IF Sign(RayP) > 0
    THEN NormLeq(VSub(VScale(RayQ, VSub(p, x)), VScale(RayP, dx)), Mul(RayQ, r))
    ELSE NormLeq(VSub(p, x), r)

\* C1: for an objective strictly unimodal along the ray, a successful
\* goldensection returns a point whose distance to the minimiser on the ray
\* is at most precision.
C1_PointWithinPrecision ==
    (pc = "done" /\ StrictlyUnimodalOnRay) => WithinOfMinimiser(result.x, precision)

\* a search that narrowed at least three times towards a minimiser inside the ray
C1_Witness ==
    /\ pc = "done"
    /\ func.kind = "quad"
    /\ Sign(RayP) > 0
    /\ depth >= 4
    /\ Len(x) = 2

\* C2: on success the returned point is the midpoint of the last bracket
\* [x1, x4], and norm(x4 - x1) <= precision.
C2_MidpointOfFinalBracket ==
    pc = "done" =>
        /\ VScale(Num(2), result.x) = VAdd(gs.x1, gs.x4)
        /\ NormLeq(VSub(gs.x4, gs.x1), precision)

C2_Witness ==
    /\ pc = "done"
    /\ depth >= 3
    /\ gs.x1 # x

\* C3: when f(x + 2^k dx) never exceeds f(x) for k in 0..63, goldensection
\* raises the bracketing RuntimeError after exactly 64 iterations, without
\* entering _gs and without a result; narrowing is entered only after an
\* iteration whose value did exceed f(x), strictly.
ExceedsAt(k) == Greater(F(func, VAdd(x, VScale(<<1, 0, k>>, dx))), F(func, x))
C3_BracketingFailed ==
    /\ pc = "failed" =>
          /\ it = 64
          /\ \A k \in 0..63 : ~ExceedsAt(k)
          /\ error = BracketingFailed
          /\ gs = NoFrame /\ depth = 0
          /\ result = NoResult
    /\ pc \in {"gs", "done"} => (it < 64 /\ ExceedsAt(it))
    /\ (pc = "bracket" /\ it = 64) => (error = "" /\ ENABLED BracketExhausted)
    /\ pc = "bracket" => (it <= 64 /\ t = <<1, 0, it>> /\ \A k \in 0..(it - 1) : ~ExceedsAt(k))

\* a failed search on a constant objective with a nonzero direction
C3_Witness ==
    /\ pc = "failed"
    /\ func.kind = "const"
    /\ dx # Origin(Len(dx))

\* C4: the nfev returned equals the number of calls func received
\* (bracketing included), and the counter agrees with it all along.
C4_EvaluationsCounted ==
    /\ nfev = Len(calls)
    /\ pc = "done" => result.nfev = Len(calls)

\* a finished search with calls made in both phases
C4_Witness ==
    /\ pc = "done"
    /\ it >= 1
    /\ depth >= 2
    /\ Len(calls) > 2 * (it + 1)

\* C5: when no component of the direction is zero, x + t*dx for the returned
\* step t is the returned point: every ratio (x'[i] - x[i]) / dx[i] is t.
NoZeroComponent == \A i \in 1..Len(dx) : dx[i] # Zero
C5_StepRoundTrip ==
    (pc = "done" /\ NoZeroComponent) =>
        /\ VAdd(x, VScale(result.t, dx)) = result.x
        /\ \A i \in 1..Len(dx) : Div(Sub(result.x[i], x[i]), dx[i]) = result.t

\* a two-component search with unequal direction components
C5_Witness ==
    /\ pc = "done"
    /\ NoZeroComponent
    /\ Len(dx) = 2
    /\ dx[1] # dx[2]
    /\ x # Origin(2)

\* C6: the step recovery divides by no zero component of the direction.
C6_StepRecoveryGuarded ==
    pc = "done" => (warnings = {} /\ IsNum(result.t))

\* (1/phi)^n, and the width of the first bracket [x, x + t*dx] after n
\* reductions by 1/phi
RECURSIVE IphiPow(_)
IphiPow(n) == IF n = 0 THEN Num(1) ELSE Mul(iphi, IphiPow(n - 1))
NarrowedWidth(n) == VScale(IphiPow(n), VScale(t, dx))
WidthReached(n) == NormLeq(NarrowedWidth(n), precision)

\* C14: goldensection terminates.  Bracketing makes at most 64 iterations,
\* each step of it either ends it or moves the loop index on by one; each
\* call of _gs either returns or recurses once; nothing runs on after the
\* return or the error; and the number of recursions made when _gs
\* returns is the least n >= 0 with width * (1/phi)^n <= precision, width
\* being that of the first bracket.
C14_Terminates ==
    /\ [](/\ it <= BracketCap
          /\ pc = "gs" => \A m \in 0..(depth - 2) : ~WidthReached(m)
          /\ pc = "done" =>
                /\ WidthReached(depth - 1)
                /\ \A m \in 0..(depth - 2) : ~WidthReached(m))
    /\ [][/\ (pc = "bracket" /\ pc' = "bracket") => it' = it + 1
          /\ (pc = "gs" /\ pc' = "gs") => depth' = depth + 1
          /\ pc \in {"bracket", "gs"}]_vars

\* a search that doubled t twice and then narrowed four times
C14_Witness ==
    /\ pc = "done"
    /\ it >= 2
    /\ depth >= 5

\* C17 as stated: every call of _gs that recurses, the first one after
\* bracketing included, makes exactly one new objective evaluation.
C17_OneEvaluationPerStep ==
    [][(pc = "gs" /\ pc' = "gs") =>
          (nfev' = nfev + 1 /\ Len(calls') = Len(calls) + 1)]_vars

\* C17, amended: the first call of _gs, which is handed no value, makes
\* two evaluations when it recurses; every later call that recurses makes
\* exactly one, the other interior value being carried forward.
C17_OneEvaluationAfterFirst ==
    [][(pc = "gs" /\ pc' = "gs") =>
          LET new == IF depth = 1 THEN 2 ELSE 1
          IN  /\ nfev' = nfev + new
              /\ Len(calls') = Len(calls) + new
              /\ (gs'.fx2 = None) # (gs'.fx3 = None)]_vars

\* a search past its first and two later narrowing steps, the later ones
\* to either side
C17_Witness ==
    /\ pc = "gs"
    /\ depth >= 4
    /\ gs.x1 # x
    /\ gs.x4 # VAdd(x, VScale(t, dx))

\* The minimiser on the ray is x + s*dx with s = RayP / RayQ when RayP > 0
\* and s = 0 otherwise; the bracket is [x, x + t*dx].
Bracketed == pc \in {"gs", "done"} /\ StrictlyUnimodalOnRay
MinimiserBelowFarEnd == Less(IF Sign(RayP) > 0 THEN RayP ELSE Zero, Mul(t, RayQ))

\* C18 as stated: after bracketing an objective unimodal on the ray, the
\* minimiser is strictly inside the bracket, neither x nor x + t*dx.
C18_MinimiserStrictlyInside ==
    Bracketed => (Sign(RayP) > 0 /\ MinimiserBelowFarEnd)

\* C18, amended: after bracketing an objective unimodal on the ray, the
\* minimiser lies in the bracket and is not its far end x + t*dx; it is
\* the near end x exactly when the minimum on the ray is at the start.
C18_MinimiserInBracket ==
    Bracketed =>
        /\ Sign(t) > 0
        /\ Sign(RayQ) > 0
        /\ MinimiserBelowFarEnd

\* a bracket found in the plane around a quadratic whose minimum on the
\* ray is at the start
C18_Witness ==
    /\ pc = "gs"
    /\ func.kind = "quad"
    /\ Len(x) = 2
    /\ func.c = x
    /\ RayQ # Zero

\* C19: t starts at 1 and is doubled after each unsuccessful iteration, of
\* which there are at most 64: in iteration k = it + 1 it is 2^(k-1).
\* Bracketing succeeds at the first k in 1..64 with
\* f(x + 2^(k-1) dx) > f(x), strictly, and the first call of _gs is handed
\* exactly the bracket [x, x + 2^(k-1) dx] and nothing else.
C19_BracketingDoubles ==
    /\ it \in 0..BracketCap
    /\ (it = 0 /\ pc = "bracket") => t = Num(1)
    /\ t = <<1, 0, it>>
    /\ pc \in {"gs", "done"} =>
          /\ it + 1 \in 1..BracketCap
          /\ ExceedsAt(it)
          /\ \A k \in 0..(it - 1) : ~ExceedsAt(k)
    /\ (pc = "gs" /\ depth = 1) =>
          gs = Frame(x, VAdd(x, VScale(<<1, 0, it>>, dx)), None, None, None, None, None)

\* the first call of _gs after t was doubled twice, away from the origin
C19_Witness ==
    /\ pc = "gs"
    /\ depth = 1
    /\ it = 2
    /\ x # Origin(Len(x))

\* C20: every call of _gs that recurses hands on a bracket whose width is
\* the old width times 1/phi, whichever branch it takes: x4 - x1 of the
\* new call is iphi * (x4 - x1) of the old, and so is its h.
C20_WidthShrinksByIphi ==
    [][(pc = "gs" /\ pc' = "gs") =>
          /\ VSub(gs'.x4, gs'.x1) = VScale(iphi, VSub(gs.x4, gs.x1))
          /\ gs'.h = VSub(gs'.x4, gs'.x1)
          /\ \/ gs'.x1 = gs.x1 /\ gs'.x4 # gs.x4
             \/ gs'.x4 = gs.x4 /\ gs'.x1 # gs.x1]_vars

\* a search in the plane that has taken each branch at least once
C20_Witness ==
    /\ pc = "gs"
    /\ Len(x) = 2
    /\ depth >= 3
    /\ gs.x1 # x
    /\ gs.x4 # VAdd(x, VScale(t, dx))
    /\ gs.fx3 = None

\* the interior points of the bracket of the current call and the
\* objective's values there
InteriorX2 == VAdd(gs.x1, VScale(iphi2, VSub(gs.x4, gs.x1)))
InteriorX3 == VAdd(gs.x1, VScale(iphi, VSub(gs.x4, gs.x1)))
InteriorTie == F(func, InteriorX2) = F(func, InteriorX3)

\* C21: a call of _gs that recurses takes the left branch exactly when
\* f(x2) < f(x3), strictly: the next bracket is [x1, x3] and the old x2 and
\* f(x2) are handed on as x3 and fx3.  Otherwise, a tie included, the next
\* bracket is [x2, x4] and the old x3 and f(x3) are handed on as x2 and fx2.
C21_BranchSelection ==
    [][(pc = "gs" /\ pc' = "gs") =>
          IF Less(F(func, InteriorX2), F(func, InteriorX3))
          THEN /\ gs'.x1 = gs.x1 /\ gs'.x4 = InteriorX3
               /\ gs'.x3 = InteriorX2 /\ gs'.fx3 = F(func, InteriorX2)
               /\ gs'.x2 = None /\ gs'.fx2 = None
          ELSE /\ gs'.x1 = InteriorX2 /\ gs'.x4 = gs.x4
               /\ gs'.x2 = InteriorX3 /\ gs'.fx2 = F(func, InteriorX3)
               /\ gs'.x3 = None /\ gs'.fx3 = None]_vars

\* a call entered by the right branch after a tie: the value handed on as
\* fx2 is also the objective's value at the new x1, the old x2
C21_Witness ==
    /\ pc = "gs"
    /\ depth >= 2
    /\ gs.x2 # None
    /\ gs.fx2 = F(func, gs.x1)

\* RayQ times the vector from p to the minimiser on the ray, and from the
\* minimiser to p
Dot(u, v) == SumSeq([i \in 1..Len(u) |-> Mul(u[i], v[i])])
ToMinimiser(p) ==
    VAdd(VScale(RayQ, VSub(x, p)),
         VScale(IF Sign(RayP) > 0 THEN RayP ELSE Zero, dx))
FromMinimiser(p) == VScale(Num(-1), ToMinimiser(p))

\* C22: for an objective strictly unimodal along the ray the minimiser
\* lies in the bracket [x1, x4] of every call of _gs, the first one and
\* each one entered by either branch, and in the last bracket on return:
\* the vectors from x1 to the minimiser and from the minimiser to x4
\* never point against each other.
C22_BracketContainsMinimiser ==
    Bracketed => Sign(Dot(ToMinimiser(gs.x1), FromMinimiser(gs.x4))) >= 0

\* a bracket in the plane both of whose ends have moved, around a
\* minimiser off the start
C22_Witness ==
    /\ pc = "gs"
    /\ StrictlyUnimodalOnRay
    /\ Sign(RayP) > 0
    /\ Len(x) = 2
    /\ gs.x1 # x
    /\ gs.x4 # VAdd(x, VScale(t, dx))
    /\ depth >= 4

\* the number of bracketing iterations completed
Iterations == IF pc = "bracket" \/ pc = "failed" THEN it ELSE it + 1

\* C23: iteration j of bracketing calls the objective exactly twice, at
\* x + 2^(j-1) dx and then at x again, and counts both: after k
\* iterations bracketing has made 2k evaluations, and 128 when it fails.
C23_TwoEvaluationsPerIteration ==
    /\ Len(calls) >= 2 * Iterations
    /\ \A j \in 1..Iterations :
          /\ calls[2 * j - 1] = VAdd(x, VScale(<<1, 0, j - 1>>, dx))
          /\ calls[2 * j] = x
    /\ (pc \in {"bracket", "failed"} \/ (pc = "gs" /\ depth = 1)) =>
          (nfev = 2 * Iterations /\ Len(calls) = 2 * Iterations)
    /\ pc = "failed" => nfev = 128

\* a bracket found in the third iteration from a start off the origin
C23_Witness ==
    /\ pc = "gs"
    /\ depth = 1
    /\ it = 2
    /\ nfev = 6
    /\ x # Origin(Len(x))
    /\ Len(x) = 2

\* C24: the counter starts at 0 and never decreases; a step raises it by
\* the number of calls the objective received in that step, one for each,
\* and by nothing else; returning and raising leave it alone, and the
\* 'nfev' returned is its final value.
C24_CounterMonotone ==
    /\ (nfev = 0 /\ calls = <<>>)
    /\ [][/\ nfev' >= nfev
          /\ nfev' - nfev = Len(calls') - Len(calls)
          /\ SubSeq(calls', 1, Len(calls)) = calls
          /\ pc' \in {"done", "failed"} => nfev' = nfev
          /\ pc' = "done" => result'.nfev = nfev']_vars

\* a return after evaluations made in bracketing and in narrowing alike
C24_Witness ==
    /\ pc = "done"
    /\ result.nfev >= 9
    /\ it >= 1
    /\ depth >= 4

\* what a call of _gs does next: return a value, or recurse on a frame
Continuation(g) ==
    LET r == _gs(g, func, precision, 0, <<>>)
    IN  <<r.returns, r.value, r.next>>

\* C25: the point and value a recursive call is handed fit its bracket.
\* Entered by the left branch, the old x2 is x1 + iphi * h of the new
\* call; entered by the right branch, the old x3 is x1 + iphi2 * h of the
\* new call; the value handed on is the objective at that point.  The new
\* call therefore goes on exactly as it would had it been handed the
\* bracket alone and evaluated both interior points itself.
C25_CarriedPointConsistent ==
    [][(pc = "gs" /\ pc' = "gs") =>
          /\ IF gs'.x1 = gs.x1
             THEN /\ InteriorX2 = VAdd(gs'.x1, VScale(iphi, gs'.h))
                  /\ gs'.x3 = InteriorX2
                  /\ gs'.fx3 = F(func, InteriorX2)
             ELSE /\ InteriorX3 = VAdd(gs'.x1, VScale(iphi2, gs'.h))
                  /\ gs'.x2 = InteriorX3
                  /\ gs'.fx2 = F(func, InteriorX3)
          /\ Continuation(gs') =
                Continuation(Frame(gs'.x1, gs'.x4, gs'.h, None, None, None, None))
          /\ iphi2 = Sub(Num(1), iphi)]_vars

\* a call handed x2 and fx2 that is handing x3 and fx3 on: a right step
\* followed by a left one
C25_Witness ==
    /\ pc = "gs"
    /\ depth >= 3
    /\ gs.x3 # None
    /\ gs.x1 # x
    /\ func.kind = "quad"

\* the width a call of _gs tests: x4 - x1 when none was passed
TrackedWidth == IF gs.h = None THEN VSub(gs.x4, gs.x1) ELSE gs.h

\* C26: at every call of _gs the tracked width h is the difference of the
\* end points x4 - x1.  The first call is passed no h and sets it to
\* x4 - x1 = t*dx; every recursive call is passed h*iphi, which is the
\* difference of its end points; so norm(h) <= precision is a test on the
\* bracket itself.
C26_WidthIsBracket ==
    pc = "gs" =>
        /\ (gs.h = None) <=> (depth = 1)
        /\ depth = 1 => VSub(gs.x4, gs.x1) = VScale(t, dx)
        /\ TrackedWidth = VSub(gs.x4, gs.x1)
        /\ GsStop(TrackedWidth, precision)
             <=> NormLeq(VSub(gs.x4, gs.x1), precision)
        /\ _gs(gs, func, precision, nfev, calls).returns
             <=> NormLeq(VSub(gs.x4, gs.x1), precision)

\* a call that was passed h, after steps to both sides, in the plane
C26_Witness ==
    /\ pc = "gs"
    /\ depth >= 4
    /\ gs.h # None
    /\ gs.x1 # x
    /\ gs.x4 # VAdd(x, VScale(t, dx))
    /\ Len(x) = 2
    /\ ~NormLeq(gs.h, precision)

\* the narrowing steps of a finished call: every call of _gs but the last
NarrowingSteps == depth - 1

\* C27: evaluation count of a call that returned.  With k bracketing
\* iterations and N narrowing steps, N the least n >= 0 with
\* norm(2^(k-1) * dx) * iphi^n <= precision, the count is 2k when N = 0
\* and 2k + N + 1 when N >= 1.
C27_ExactEvaluationCount ==
    pc = "done" =>
        /\ t = <<1, 0, Iterations - 1>>
        /\ WidthReached(NarrowingSteps)
        /\ \A n \in 0..(NarrowingSteps - 1) : ~WidthReached(n)
        /\ result.nfev = IF NarrowingSteps = 0
                         THEN 2 * Iterations
                         ELSE 2 * Iterations + NarrowingSteps + 1
        /\ Len(calls) = result.nfev

\* a return after two bracketing iterations and at least two narrowing steps
C27_Witness ==
    /\ pc = "done"
    /\ Iterations >= 2
    /\ NarrowingSteps >= 2
    /\ result.nfev = 2 * Iterations + NarrowingSteps + 1


ZeroDirection == dx = Origin(Len(dx))

\* C28: with the all-zero direction every bracketing iteration evaluates
\* the objective at the start point twice, the strict comparison fails,
\* and the call goes through all 64 iterations to the bracketing
\* RuntimeError; _gs is never entered, nothing is returned, and the
\* division of the step recovery is never reached.
C28_ZeroDirectionFails ==
    ZeroDirection =>
        /\ pc \in {"bracket", "failed"}
        /\ gs = NoFrame /\ depth = 0
        /\ result = NoResult
        /\ warnings = {}
        /\ \A i \in 1..Len(calls) : calls[i] = x
        /\ nfev = 2 * it
        /\ (pc = "bracket" /\ it < BracketCap) =>
              /\ VAdd(x, VScale(t, dx)) = x
              /\ ~BracketFound(BracketEvals.f1, BracketEvals.f0)
              /\ error = ""
        /\ pc = "failed" =>
              /\ it = BracketCap
              /\ nfev = 2 * BracketCap
              /\ error = BracketingFailed

\* the failure on an objective that is not constant, away from its minimum
C28_Witness ==
    /\ ZeroDirection
    /\ pc = "failed"
    /\ func.kind = "quad"
    /\ x # func.c
    /\ Len(x) = 2

\* the returned point as x + s*dx: s = AlongRay / RayQ
AlongRay == Dot(VSub(result.x, x), dx)
IncreasingOnRay ==
    \/ func.kind = "quad" /\ RayQ # Zero /\ Sign(RayP) <= 0
    \/ func.kind = "lin" /\ Sign(SumSeq(dx)) < 0

\* C29: a returned point is x + s*dx with 0 < s < t = 2^(k-1), k the
\* number of bracketing iterations: it is on the ray, strictly between the
\* start and the far end of the first bracket, and so neither of them nor a
\* point behind the start.  When the objective increases along the whole
\* ray it is within precision of the start and differs from it.
C29_PointStrictlyInsideBracket ==
    pc = "done" =>
        /\ t = <<1, 0, Iterations - 1>>
        /\ RayQ # Zero
        /\ VScale(RayQ, VSub(result.x, x)) = VScale(AlongRay, dx)
        /\ Sign(AlongRay) > 0
        /\ Less(AlongRay, Mul(t, RayQ))
        /\ result.x # x
        /\ result.x # VAdd(x, VScale(t, dx))
        /\ IncreasingOnRay =>
              /\ NormLeq(VSub(result.x, x), precision)
              /\ gs.x1 = x

\* a return next to the start, on an objective increasing along the ray
\* of a plane search, after at least two narrowing steps
C29_Witness ==
    /\ pc = "done"
    /\ IncreasingOnRay
    /\ Len(x) = 2
    /\ depth >= 3
    /\ dx[1] # dx[2]

----------------------------------------------------------------------------
(* Properties of least_squares *)

\* the last method call was __call__, on the argument held in arg
Evaluated == out.kind \in {"value", "ValueError"}
Outcome(r) == IF r.kind = "value" THEN <<"value", r.value>> ELSE <<r.kind, r.msg>>

\* C7: a call whose coerced x has a row count (its number of elements)
\* other than the column count of A raises the ValueError "Shape mismatch"
\* carrying the shape of A and the shape of the coerced x, returns no value
\* and has performed no arithmetic on A, x, b; no other call raises it.
C7_ShapeMismatchRaised ==
    Evaluated =>
        IF Len(arg.data) # Len(A[1])
        THEN /\ out.kind = "ValueError"
             /\ out.msg = [text |-> "Shape mismatch", A |-> <<Len(A), Len(A[1])>>,
                           x |-> <<Len(arg.data), 1>>]
             /\ out.ops = <<>>
        ELSE out.kind = "ValueError" => out.msg.text # "Shape mismatch"

\* f0([2, 3, 4]) on an A of two columns, and more than one row
C7_Witness ==
    /\ out.kind = "ValueError"
    /\ out.msg.text = "Shape mismatch"
    /\ ~arg.isarray /\ arg.shape = <<3>>
    /\ Len(A[1]) = 2 /\ Len(A) = 2

\* C8: evaluating on n values given flat gives the same result as
\* evaluating on the same values given as an n-by-1 column (an array or a
\* nested list), n being the column count of A.
AsColumn(v, a) == [isarray |-> a, shape |-> <<Len(v.data), 1>>, data |-> v.data]
C8_FlatEqualsColumn ==
    (Evaluated /\ Len(arg.shape) = 1 /\ Len(arg.data) = Len(A[1])) =>
        \A a \in BOOLEAN :
            Outcome(out) = Outcome(__call__(klass, A, b, AsColumn(arg, a)))

\* a flat two-element list evaluated to a value
C8_Witness ==
    /\ out.kind = "value"
    /\ ~arg.isarray /\ arg.shape = <<2>>
    /\ Len(A) = 2 /\ Len(b) = 2

\* C9: no __call__, failing or not, and no solve_minimum changes the
\* stored A and b.
C9_StoredUnchanged == [][A' = A /\ b' = b]_vars

\* a solve_minimum after a call that failed with the shape mismatch
C9_Witness ==
    /\ ncalls = 2
    /\ out.kind = "report"
    /\ arg # NoArg
    /\ Len(arg.data) # Len(A[1])

\* C10: __call__ emits no output and leaves the caller's x as it was.
C10_EvaluateNoSideEffect ==
    /\ stdout = <<>>
    /\ Evaluated => (out.printed = <<>> /\ out.x = arg)

\* C11: every constructed least_squares instance holds an A and a b with
\* the same number of rows, at construction and after every call.
C11_RowCountsMatch == Len(A) = Len(b)

----------------------------------------------------------------------------
(* Properties of concurrent goldensection calls *)

\* the call of the same arguments run from its start to its end with no
\* other call in progress
RECURSIVE RunAlone(_)
RunAlone(c) == IF Finished(c) THEN c ELSE RunAlone(Advance(c))
Restarted(c) ==
    Started([func |-> c.func, x |-> c.x, dx |-> c.dx, precision |-> c.precision])

\* C12: of two goldensection calls whose evaluations interleave in any
\* order, each counts in nfev exactly the evaluations it made itself, and
\* each ends as it ends when run alone: the same point, step and count, or
\* the same error.
C12_ConcurrentCallsIndependent ==
    \A i \in 1..2 :
        /\ runs[i].nfev = evals[i]
        /\ Len(runs[i].calls) = evals[i]
        /\ Finished(runs[i]) =>
              /\ runs[i].result = RunAlone(Restarted(runs[i])).result
              /\ runs[i].error = RunAlone(Restarted(runs[i])).error
        /\ runs[i].pc = "done" => runs[i].result.nfev = evals[i]

\* the first call has returned after narrowing, while the second, which
\* has evaluated too, is still narrowing
C12_Witness ==
    /\ runs # <<>>
    /\ runs[1].pc = "done"
    /\ runs[1].depth >= 3
    /\ runs[2].pc = "gs"
    /\ runs[2].depth >= 2
    /\ evals[2] >= 3

----------------------------------------------------------------------------
(* Properties of a repeated goldensection call *)

Solved == out.kind \in {"report", "LinAlgError"}

\* C15: solve_minimum hands back what np.linalg.lstsq(A, b) returned on
\* the stored A and b: the report has the keys 'x*', 'r', 'rk', 's' and no
\* other, holding the solver's outputs 0..3 in that order, unchanged; it
\* calls nothing but the solver, and raises exactly when the solver does.
C15_ReportIsSolverOutput ==
    Solved =>
        LET _soln == Lstsq(A, b)
        IN  /\ out.ops = <<"lstsq">>
            /\ (out.kind = "LinAlgError") = (_soln = <<>>)
            /\ out.kind = "report" =>
                  /\ DOMAIN out.report = {"x*", "r", "rk", "s"}
                  /\ out.report["x*"] = _soln[1]
                  /\ out.report["r"] = _soln[2]
                  /\ out.report["rk"] = _soln[3]
                  /\ out.report["s"] = _soln[4]

\* a report on an A of two rows and one column, after an evaluation
C15_Witness ==
    /\ out.kind = "report"
    /\ ncalls = 2
    /\ Len(A) = 2 /\ Len(A[1]) = 1
    /\ out.report["r"].data # <<>>

\* The value of the instance at a point z / q of fractions with the common
\* denominator q, times q^2, is || A z - q b ||^2: the value __call__
\* computes at the integer point z on the instance with b scaled by q.
Scaled(v, q) == [i \in 1..Len(v) |-> <<q * v[i][1]>>]
ScaledValueAt(z, q) ==
    __call__(klass, A, Scaled(b, q),
             [isarray |-> TRUE, shape |-> <<Len(z), 1>>, data |-> z])
Offsets(n) == [1..n -> (0 - MaxOffset)..MaxOffset]

\* C16: the value of the instance at solve_minimum()['x*'] is at most its
\* value at every other point of the same dimension: at the points
\* x* + d / q next to x* (d a small integer offset, q the denominator of
\* x*) and at the integer points d themselves.
C16_MinimiserOptimal ==
    out.kind = "report" =>
        LET xs == out.report["x*"]
            n == Len(xs.data)
            best == ScaledValueAt(xs.data, xs.den)
        IN  /\ xs.shape = <<Len(A[1]), 1>>
            /\ best.kind = "value"
            /\ \A d \in Offsets(n) :
                  /\ best.value <=
                        ScaledValueAt([i \in 1..n |-> xs.data[i] + d[i]], xs.den).value
                  /\ best.value <=
                        ScaledValueAt([i \in 1..n |-> xs.den * d[i]], xs.den).value

\* a minimiser that is no integer point and leaves a residual
C16_Witness ==
    /\ out.kind = "report"
    /\ out.report["x*"].den > 1
    /\ out.report["r"].data # <<>>
    /\ ScaledValueAt(out.report["x*"].data, out.report["x*"].den).value > 0

\* the same elements as arg, as a list or an array of shape sh
Reshaped(a, sh) == [isarray |-> a, shape |-> sh, data |-> arg.data]
IsColumn(v) == Len(v.shape) = 2 /\ v.shape[2] = 1

\* C30: __call__ validates only the element count of x.  An x that is not
\* already an n-by-1 array (a flat sequence, a 1-by-n row, a p-by-q array
\* or nested list) is reshaped to the (p*q)-by-1 column of its elements in
\* order; the call raises the "Shape mismatch" ValueError exactly when the
\* element count differs from the column count of A, and otherwise goes on
\* to the arithmetic, with the outcome it has on every other shape of the
\* same elements.
C30_OnlyElementCountValidated ==
    Evaluated =>
        /\ Coerce(arg).shape = <<Len(arg.data), 1>>
        /\ Coerce(arg).data = arg.data
        /\ (arg.isarray /\ IsColumn(arg)) => Coerce(arg) = arg
        /\ IF Len(arg.data) = Len(A[1])
           THEN /\ out.ops # <<>>
                /\ out.kind = "ValueError" => out.msg.text # "Shape mismatch"
           ELSE /\ out.ops = <<>>
                /\ out.kind = "ValueError"
                /\ out.msg.text = "Shape mismatch"
        /\ \A a \in BOOLEAN, sh \in Shapes(Len(arg.data)) :
              (Len(sh) = 1 \/ sh[1] * sh[2] = Len(arg.data)) =>
                  Outcome(__call__(klass, A, b, Reshaped(a, sh))) = Outcome(out)

\* a 2-by-2 array evaluated to a value on an A of four columns
C30_Witness ==
    /\ out.kind = "value"
    /\ arg.isarray /\ arg.shape = <<2, 2>>
    /\ Len(A[1]) = 4

====
